---- MODULE Spec2Model ----
(***************************************************************************)
(* Model of transcribe.py: the Tk controller (TranscriberApp), the worker  *)
(* thread it spawns per run (worker_transcribe_all), the queue.Queue       *)
(* between them, and the parts of the file system both of them touch.      *)
(*                                                                         *)
(* Abstractions: wall-clock values (elapsed seconds, the HHMMSS part of an *)
(* output name) are left out of the messages and of the output path; label *)
(* and progress-bar texts are not state.  Times of the engine (segment end,*)
(* duration) are integers counting half seconds.  Python floats   *)
(* are modelled as exact rationals.                                        *)
(***************************************************************************)
EXTENDS Integers, Sequences, FiniteSets, TLC

VARIABLES
    audio_files,            \* self.audio_files: staged paths
    worker_files,           \* self.worker_files: snapshot of the run
    total_files,            \* self.total_files
    files_done,             \* self.files_done
    output_dir,             \* self.output_dir
    is_transcribing,        \* self.is_transcribing
    select_button,          \* state of self.select_button
    start_button,           \* state of self.start_button
    change_output_button,   \* state of self.change_output_button
    queue,                  \* self.queue (FIFO, unbounded)
    ui_pc,                  \* UI thread: "mainloop" or inside process_queue
    threads,                \* worker threads ever started, in start order
    fs_files,               \* audio files that exist on disk (resolved paths)
    fs_dirs,                \* directories that exist on disk
    config,                 \* content of CONFIG_PATH
    sent,                   \* history: events put by the run in progress
    writes,                 \* history: transcript writes of the run in progress
    err_idx,                \* history: where the run in progress raised (-1: nowhere)
    nsegs,                  \* history: segments the engine yielded in this run
    worker_read             \* history: self.* fields the last worker step read

vars == <<audio_files, worker_files, total_files, files_done, output_dir,
          is_transcribing, select_button, start_button, change_output_button,
          queue, ui_pc, threads, fs_files, fs_dirs, config,
          sent, writes, err_idx, nsegs, worker_read>>

ui_fields == <<audio_files, worker_files, total_files, files_done, output_dir,
               is_transcribing, select_button, start_button, change_output_button>>
buttons   == <<select_button, start_button, change_output_button>>
fs        == <<fs_files, fs_dirs, config>>
history   == <<sent, writes, err_idx, nsegs, worker_read>>

(***************************************************************************)
(* Bounds of the model.                                                    *)
(***************************************************************************)
MaxFiles == 3       \* longest staged list the user builds
MaxBatch == 2       \* most paths returned by one file dialog
MaxSegs  == 2       \* segments the engine yields in one run
MaxRuns  == 2       \* worker threads started in one session

(***************************************************************************)
(* Paths.  "/link" is a symbolic link to the directory "/real".            *)
(***************************************************************************)
Paths == {"/real/a.mp3", "/link/a.mp3", "/real/b.MP3", "/real/c.wav", "/real/n.txt"}

SUPPORTED_EXTS == {".mp3", ".wav", ".m4a", ".mp4", ".aac", ".flac", ".ogg"}

\* Path.suffix
Suffix(p) ==
    CASE p \in {"/real/a.mp3", "/link/a.mp3"} -> ".mp3"
      [] p = "/real/b.MP3" -> ".MP3"
      [] p = "/real/c.wav" -> ".wav"
      [] OTHER -> ".txt"

\* str.lower on a suffix
Lower(s) == IF s = ".MP3" THEN ".mp3" ELSE s

\* Path.name
Name(p) ==
    CASE p \in {"/real/a.mp3", "/link/a.mp3"} -> "a.mp3"
      [] p = "/real/b.MP3" -> "b.MP3"
      [] p = "/real/c.wav" -> "c.wav"
      [] OTHER -> "n.txt"

\* Path.resolve(): absolute path with the symbolic links of its existing
\* components followed; the last component need not exist.
Resolve(p) == IF p = "/link/a.mp3" THEN "/real/a.mp3" ELSE p

\* Path.exists() given the files on disk
Exists(p, files) == Resolve(p) \in files

AudioFiles == {Resolve(p) : p \in Paths}

(***************************************************************************)
(* Directories and the configuration file.                                 *)
(***************************************************************************)
DEFAULT_DOWNLOADS_DIR == "Downloads"
Dirs == {DEFAULT_DOWNLOADS_DIR, "out"}
Cwd  == "."

\* out.exists() and out.is_dir(); Path("") is the current directory
IsDir(p, dirs) == p = Cwd \/ p \in dirs

\* Contents of CONFIG_PATH: no file, a file that is not JSON, a JSON object
\* without output_dir, a JSON object with output_dir.
ConfigStates ==
    {<<"missing">>, <<"invalid">>, <<"object">>} \cup {<<"object", d>> : d \in Dirs}

\* load_output_dir: the directory returned and the directories after the call
load_output_dir(cfg, dirs) ==
    LET out == IF Len(cfg) = 2 THEN cfg[2] ELSE Cwd
    IN  IF cfg[1] = "object" /\ IsDir(out, dirs)
        THEN [dir |-> out, dirs |-> dirs]
        ELSE [dir |-> DEFAULT_DOWNLOADS_DIR, dirs |-> dirs \cup {DEFAULT_DOWNLOADS_DIR}]

\* save_output_dir: the configuration after the call; a failed write (~ok) is
\* ignored and leaves the file as it was
save_output_dir(cfg, d, ok) == IF ok THEN <<"object", d>> ELSE cfg

(***************************************************************************)
(* on_select_files, lines 275-294: the staged list after the loop over the *)
(* paths the dialog returned.                                              *)
(***************************************************************************)
\* the `already` test of lines 287-290
Already(staged, resolved, files) ==
    \E i \in 1..Len(staged) :
        (IF Exists(staged[i], files) THEN Resolve(staged[i]) ELSE staged[i]) = resolved

RECURSIVE AddFiles(_, _, _)
AddFiles(staged, filepaths, files) ==
    IF filepaths = <<>> THEN staged
    ELSE LET path_obj == Head(filepaths)
             rest     == Tail(filepaths)
         IN  IF Lower(Suffix(path_obj)) \notin SUPPORTED_EXTS
             THEN AddFiles(staged, rest, files)
             ELSE IF Already(staged, Resolve(path_obj), files)
                  THEN AddFiles(staged, rest, files)
                  ELSE AddFiles(Append(staged, path_obj), rest, files)

\* the selections a file dialog can return: up to MaxBatch paths, in any
\* order, the same path possibly twice; <<>> is a cancelled dialog
Batches == UNION {[1..n -> Paths] : n \in 0..MaxBatch}
\* the selections made of paths without a symbolic link
PlainBatches == {b \in Batches : \A i \in 1..Len(b) : Resolve(b[i]) = b[i]}

(***************************************************************************)
(* The worker's arithmetic, lines 393 and 403-406.                         *)
(***************************************************************************)
\* A Python float is modelled as the exact rational <<numerator, denominator>>
\* with a positive denominator.
Less(q, r) == q[1] * r[2] < r[1] * q[2]
PyMax(q, r) == IF Less(q, r) THEN r ELSE q
PyMin(q, r) == IF Less(r, q) THEN r ELSE q
\* int(): truncation towards zero
PyInt(q) == IF q[1] >= 0 THEN q[1] \div q[2] ELSE -((-q[1]) \div q[2])

\* getattr(info, "duration", None) or 0.0; an absent or None duration is <<>>
DurationOf(info_duration) ==
    IF info_duration = <<>> \/ info_duration[1] = 0 THEN 0 ELSE info_duration[1]

\* Mutant of Percent: rounded to the nearest integer instead of truncated.
PercentRounded(seg_end, duration) ==
    IF duration > 0 /\ seg_end # <<>>
    THEN LET q == PyMin(PyMax(<<seg_end[1] * 100, duration>>, <<0, 1>>), <<100, 1>>)
         IN  PyInt(<<2 * q[1] + q[2], 2 * q[2]>>)
    ELSE 0

\* lines 403-406; seg.end is <<>> for None
Percent(seg_end, duration) ==
    IF duration > 0 /\ seg_end # <<>>
    THEN PyInt(PyMin(PyMax(<<seg_end[1] * 100, duration>>, <<0, 1>>), <<100, 1>>))
    ELSE 0

\* (seg.text or "").strip(); seg.text is <<>> for None
Strip(text) ==
    IF text = <<>> THEN ""
    ELSE CASE text[1] = " a " -> "a"
           [] text[1] = " "   -> ""
           [] OTHER           -> text[1]

(***************************************************************************)
(* What the engine can return in the model.                                *)
(***************************************************************************)
SegTexts  == {<<>>, <<" ">>, <<" a ">>}
\* in a run of the whole program: one duration, one segment end
Durations == {<<2>>}
Segments  == [text : SegTexts, end : {<<1>>}]
\* for the percentage alone: absent, zero, negative and positive durations,
\* ends absent, negative, inside and beyond the duration; <<85>> of <<200>> is
\* 42.5 s of 100 s
PercentDurations == {<<>>, <<0>>, <<-2>>, <<1>>, <<3>>, <<7>>, <<200>>}
PercentEnds      == {<<>>, <<-1>>, <<0>>, <<1>>, <<2>>, <<3>>, <<6>>, <<8>>, <<85>>, <<199>>, <<201>>}
PercentSegments  == [text : {<<" a ">>}, end : PercentEnds]

(***************************************************************************)
(* Worker threads.                                                         *)
(***************************************************************************)
\* The locals of worker_transcribe_all, and `created`: whether the last
\* mkdir of the thread found the directory absent (history).
\* a thread that has returned
Finished == [pc |-> "done", files |-> <<>>, idx |-> 0, info |-> <<>>, duration |-> 0,
             lines |-> <<>>, out_path |-> <<>>, created |-> FALSE]
\* a thread that threading.Thread.start() has just started
Started  == [pc |-> "status", files |-> <<>>, idx |-> 0, info |-> <<>>, duration |-> 0,
             lines |-> <<>>, out_path |-> <<>>, created |-> FALSE]

Active == {t \in 1..Len(threads) : threads[t].pc # "done"}

(***************************************************************************)
(* Initial state: TranscriberApp.__init__ and create_widgets on a fresh    *)
(* installation: no configuration file, no downloads directory yet.        *)
(***************************************************************************)
Startup(cfg, dirs) ==
    /\ LET loaded == load_output_dir(cfg, dirs)
       IN  output_dir = loaded.dir /\ fs_dirs = loaded.dirs
    /\ config = cfg
    /\ fs_files = AudioFiles
    /\ audio_files = <<>>
    /\ worker_files = <<>>
    /\ total_files = 0
    /\ files_done = 0
    /\ is_transcribing = FALSE
    /\ select_button = "normal"
    /\ start_button = "disabled"
    /\ change_output_button = "normal"
    /\ queue = <<>>
    /\ ui_pc = "mainloop"
    /\ threads = <<>>
    /\ sent = <<>>
    /\ writes = <<>>
    /\ err_idx = -1
    /\ nsegs = 0
    /\ worker_read = {}

Init == Startup(<<"missing">>, {})

\* the application is started on any configuration file and directories
InitConfig == \E cfg \in ConfigStates, dirs \in SUBSET Dirs : Startup(cfg, dirs)

\* the idle application is quit and started again: main() on the
\* configuration file and the directories as they are now
Restart ==
    /\ ~is_transcribing
    /\ ui_pc = "mainloop"
    /\ LET loaded == load_output_dir(config, fs_dirs)
       IN  output_dir' = loaded.dir /\ fs_dirs' = loaded.dirs
    /\ audio_files' = <<>>
    /\ worker_files' = <<>>
    /\ total_files' = 0
    /\ files_done' = 0
    /\ is_transcribing' = FALSE
    /\ select_button' = "normal"
    /\ start_button' = "disabled"
    /\ change_output_button' = "normal"
    /\ UNCHANGED <<queue, ui_pc, threads, fs_files, config, history>>

(***************************************************************************)
(* UI actions.  A Tk button calls its command only while its state is      *)
(* "normal", and only between two callbacks of the main loop.              *)
(***************************************************************************)
\* on_change_output_dir: new_dir is the dialog's answer ("" when cancelled),
\* mkdir_ok whether out_path.mkdir succeeds, save_ok whether the configuration
\* file is written
on_change_output_dir(new_dir, mkdir_ok, save_ok) ==
    /\ ui_pc = "mainloop"
    /\ change_output_button = "normal"
    /\ IF new_dir = "" \/ ~mkdir_ok
       THEN UNCHANGED <<output_dir, fs_dirs, config>>
       ELSE /\ fs_dirs' = fs_dirs \cup {new_dir}
            /\ output_dir' = new_dir
            /\ config' = save_output_dir(config, new_dir, save_ok)
    /\ UNCHANGED <<audio_files, worker_files, total_files, files_done,
                   is_transcribing, buttons, queue, ui_pc, threads, fs_files,
                   history>>

\* Mutant of on_select_files: staging files also clears the count of
\* finished files.
on_select_files_resets_done(filepaths) ==
    /\ ui_pc = "mainloop"
    /\ select_button = "normal"
    /\ IF is_transcribing \/ filepaths = <<>>
       THEN UNCHANGED <<audio_files, total_files, files_done, start_button>>
       ELSE /\ audio_files' = AddFiles(audio_files, filepaths, fs_files)
            /\ Len(audio_files') <= MaxFiles
            /\ total_files' = Len(audio_files')
            /\ files_done' = 0
            /\ start_button' = IF total_files' = 0 THEN "disabled" ELSE "normal"
    /\ UNCHANGED <<worker_files, output_dir, is_transcribing,
                   select_button, change_output_button, queue, ui_pc, threads,
                   fs, history>>

\* on_select_files: filepaths is the dialog's answer
on_select_files(filepaths) ==
    /\ ui_pc = "mainloop"
    /\ select_button = "normal"
    /\ IF is_transcribing \/ filepaths = <<>>
       THEN UNCHANGED <<audio_files, total_files, start_button>>
       ELSE /\ audio_files' = AddFiles(audio_files, filepaths, fs_files)
            /\ Len(audio_files') <= MaxFiles
            /\ total_files' = Len(audio_files')
            /\ start_button' = IF total_files' = 0 THEN "disabled" ELSE "normal"
    /\ UNCHANGED <<worker_files, files_done, output_dir, is_transcribing,
                   select_button, change_output_button, queue, ui_pc, threads,
                   fs, history>>

\* Mutant of on_start_transcription: the staged list is not cleared.
on_start_keeps_staged ==
    /\ ui_pc = "mainloop"
    /\ start_button = "normal"
    /\ IF is_transcribing \/ audio_files = <<>>
       THEN UNCHANGED <<ui_fields, threads, history>>
       ELSE /\ Len(threads) < MaxRuns
            /\ worker_files' = audio_files
            /\ total_files' = Len(worker_files')
            /\ files_done' = 0
            /\ is_transcribing' = TRUE
            /\ select_button' = "disabled"
            /\ start_button' = "disabled"
            /\ change_output_button' = "disabled"
            /\ threads' = Append(threads, Started)
            /\ sent' = <<>>
            /\ writes' = <<>>
            /\ err_idx' = -1
            /\ nsegs' = 0
            /\ worker_read' = {}
            /\ UNCHANGED <<output_dir, audio_files>>
    /\ UNCHANGED <<queue, ui_pc, fs>>

\* Mutant of on_start_transcription: the change-output control stays enabled
\* during the run.
on_start_leaves_change_enabled ==
    /\ ui_pc = "mainloop"
    /\ start_button = "normal"
    /\ IF is_transcribing \/ audio_files = <<>>
       THEN UNCHANGED <<ui_fields, threads, history>>
       ELSE /\ Len(threads) < MaxRuns
            /\ worker_files' = audio_files
            /\ total_files' = Len(worker_files')
            /\ files_done' = 0
            /\ is_transcribing' = TRUE
            /\ audio_files' = <<>>
            /\ select_button' = "disabled"
            /\ start_button' = "disabled"
            /\ threads' = Append(threads, Started)
            /\ sent' = <<>>
            /\ writes' = <<>>
            /\ err_idx' = -1
            /\ nsegs' = 0
            /\ worker_read' = {}
            /\ UNCHANGED <<output_dir, change_output_button>>
    /\ UNCHANGED <<queue, ui_pc, fs>>

\* on_start_transcription
on_start_transcription ==
    /\ ui_pc = "mainloop"
    /\ start_button = "normal"
    /\ IF is_transcribing \/ audio_files = <<>>
       THEN UNCHANGED <<ui_fields, threads, history>>
       ELSE /\ Len(threads) < MaxRuns
            /\ worker_files' = audio_files
            /\ total_files' = Len(worker_files')
            /\ files_done' = 0
            /\ is_transcribing' = TRUE
            /\ audio_files' = <<>>
            /\ select_button' = "disabled"
            /\ start_button' = "disabled"
            /\ change_output_button' = "disabled"
            /\ threads' = Append(threads, Started)
            /\ sent' = <<>>
            /\ writes' = <<>>
            /\ err_idx' = -1
            /\ nsegs' = 0
            /\ worker_read' = {}
            /\ UNCHANGED output_dir
    /\ UNCHANGED <<queue, ui_pc, fs>>

(***************************************************************************)
(* The worker thread, worker_transcribe_all.  Each action is one step of   *)
(* thread t between two points where the UI thread can run.                *)
(***************************************************************************)
\* Mutant of Put: the queue is last in, first out.
PutFront(msg) ==
    /\ queue' = <<msg>> \o queue
    /\ sent' = Append(sent, msg)

\* self.queue.put(msg)
Put(msg) ==
    /\ queue' = Append(queue, msg)
    /\ sent' = Append(sent, msg)

\* Mutant of Raise: the exception is caught inside the loop over the files,
\* which goes on with the next file.
RaiseAndGoOn(t) ==
    /\ Put(<<"error", "exception">>)
    /\ threads' = [threads EXCEPT ![t].pc = "next", ![t].idx = @ + 1]
    /\ err_idx' = threads[t].idx

\* Mutant of Raise: the handler puts the error event and falls through to
\* the all_done of line 434.
RaiseThenAllDone(t) ==
    /\ queue' = queue \o << <<"error", "exception">>, <<"all_done">> >>
    /\ sent' = sent \o << <<"error", "exception">>, <<"all_done">> >>
    /\ threads' = [threads EXCEPT ![t] = Finished]
    /\ err_idx' = threads[t].idx

\* an exception reaches line 436: the handler puts the error event and the
\* thread returns
Raise(t) ==
    /\ Put(<<"error", "exception">>)
    /\ threads' = [threads EXCEPT ![t] = Finished]
    /\ err_idx' = threads[t].idx

\* what is written to out_path: each line followed by a blank line
Content(lines) == [i \in 1..Len(lines) |-> <<lines[i], "\n\n">>]

\* line 371
WorkerStatus(t) ==
    /\ threads[t].pc = "status"
    /\ Put(<<"status", "Loading model (small, int8 on CPU)...">>)
    /\ threads' = [threads EXCEPT ![t].pc = "load"]
    /\ worker_read' = {}
    /\ UNCHANGED <<ui_fields, ui_pc, fs, writes, err_idx, nsegs>>

\* lines 373-374: load_model() returns (ok) or raises
WorkerLoadModel(t, ok) ==
    /\ threads[t].pc = "load"
    /\ IF ok
       THEN /\ Put(<<"status", "Model loaded. Starting transcription...">>)
            /\ threads' = [threads EXCEPT ![t].pc = "for"]
            /\ UNCHANGED err_idx
       ELSE Raise(t)
    /\ worker_read' = {}
    /\ UNCHANGED <<ui_fields, ui_pc, fs, writes, nsegs>>

\* line 376: enumerate(self.worker_files, start=1) is evaluated
WorkerFor(t) ==
    /\ threads[t].pc = "for"
    /\ threads' = [threads EXCEPT ![t].pc = "next", ![t].files = worker_files,
                                  ![t].idx = 1]
    /\ worker_read' = {"worker_files"}
    /\ UNCHANGED <<ui_fields, ui_pc, fs, queue, sent, writes, err_idx, nsegs>>

\* lines 376-383 for the next file, or lines 433-434 after the last one
WorkerNext(t) ==
    /\ threads[t].pc = "next"
    /\ LET w == threads[t]
       IN  IF w.idx <= Len(w.files)
           THEN /\ Put(<<"file_start", w.idx, total_files, Name(w.files[w.idx])>>)
                /\ threads' = [threads EXCEPT ![t].pc = "transcribe"]
                /\ worker_read' = {"total_files"}
           ELSE /\ Put(<<"all_done">>)
                /\ threads' = [threads EXCEPT ![t] = Finished]
                /\ worker_read' = {}
    /\ UNCHANGED <<ui_fields, ui_pc, fs, writes, err_idx, nsegs>>

\* lines 386-394: model.transcribe returns info with this duration, or raises
WorkerTranscribe(t, info_duration, ok) ==
    /\ threads[t].pc = "transcribe"
    /\ IF ok
       THEN /\ threads' = [threads EXCEPT ![t].pc = "segments",
                                         ![t].info = info_duration,
                                         ![t].duration = DurationOf(info_duration),
                                         ![t].lines = <<>>]
            /\ UNCHANGED <<queue, sent, err_idx>>
       ELSE Raise(t)
    /\ worker_read' = {}
    /\ UNCHANGED <<ui_fields, ui_pc, fs, writes, nsegs>>

\* lines 396-409: the generator yields seg
WorkerSegment(t, seg) ==
    /\ threads[t].pc = "segments"
    /\ nsegs < MaxSegs
    /\ nsegs' = nsegs + 1
    /\ LET text == Strip(seg.text)
       IN  IF text = ""
           THEN UNCHANGED <<threads, queue, sent>>
           ELSE /\ threads' = [threads EXCEPT ![t].lines = Append(@, text)]
                /\ Put(<<"segment", text, Percent(seg.end, threads[t].duration)>>)
    /\ worker_read' = {}
    /\ UNCHANGED <<ui_fields, ui_pc, fs, writes, err_idx>>

\* Mutant of WorkerSegmentsEnd: a file without lines is skipped.
WorkerSegmentsEndSkipsEmpty(t, ok) ==
    /\ threads[t].pc = "segments"
    /\ IF ok
       THEN /\ threads' = IF threads[t].lines = <<>>
                          THEN [threads EXCEPT ![t].pc = "next", ![t].idx = @ + 1]
                          ELSE [threads EXCEPT ![t].pc = "mkdir"]
            /\ UNCHANGED <<queue, sent, err_idx>>
       ELSE Raise(t)
    /\ worker_read' = {}
    /\ UNCHANGED <<ui_fields, ui_pc, fs, writes, nsegs>>

\* line 396: the generator is exhausted (ok) or raises
WorkerSegmentsEnd(t, ok) ==
    /\ threads[t].pc = "segments"
    /\ IF ok
       THEN /\ threads' = [threads EXCEPT ![t].pc = "mkdir"]
            /\ UNCHANGED <<queue, sent, err_idx>>
       ELSE Raise(t)
    /\ worker_read' = {}
    /\ UNCHANGED <<ui_fields, ui_pc, fs, writes, nsegs>>

\* Mutant of WorkerMkdir: the directory is created for the first file only.
WorkerMkdirFirstOnly(t, ok) ==
    /\ threads[t].pc = "mkdir"
    /\ IF ok
       THEN /\ threads' = [threads EXCEPT ![t].pc = "open",
                                         ![t].out_path = <<output_dir, threads[t].idx>>,
                                         ![t].created = FALSE]
            /\ fs_dirs' = IF threads[t].idx = 1 THEN fs_dirs \cup {output_dir} ELSE fs_dirs
            /\ UNCHANGED <<queue, sent, err_idx>>
       ELSE /\ Raise(t)
            /\ UNCHANGED fs_dirs
    /\ worker_read' = {"output_dir"}
    /\ UNCHANGED <<ui_fields, ui_pc, fs_files, config, writes, nsegs>>

\* lines 412-416: out_path, then self.output_dir.mkdir succeeds (ok) or raises
WorkerMkdir(t, ok) ==
    /\ threads[t].pc = "mkdir"
    /\ IF ok
       THEN /\ threads' = [threads EXCEPT ![t].pc = "open",
                                         ![t].out_path = <<output_dir, threads[t].idx>>,
                                         ![t].created = (output_dir \notin fs_dirs)]
            /\ fs_dirs' = fs_dirs \cup {output_dir}
            /\ UNCHANGED <<queue, sent, err_idx>>
       ELSE /\ Raise(t)
            /\ UNCHANGED fs_dirs
    /\ worker_read' = {"output_dir"}
    /\ UNCHANGED <<ui_fields, ui_pc, fs_files, config, writes, nsegs>>

\* Mutant of WorkerWrite: a file without lines is not opened.
WorkerWriteSkipsEmpty(t, k) ==
    /\ threads[t].pc = "open"
    /\ LET w == threads[t]
       IN  /\ k \in -1..Len(w.lines)
           /\ w.out_path[1] \notin fs_dirs => k = -1
           /\ writes' = IF k = -1 \/ w.lines = <<>> THEN writes
                        ELSE Append(writes, [path |-> w.out_path,
                                             content |-> SubSeq(Content(w.lines), 1, k)])
           /\ IF k = Len(w.lines)
              THEN /\ threads' = [threads EXCEPT ![t].pc = "file_done"]
                   /\ UNCHANGED <<queue, sent, err_idx>>
              ELSE Raise(t)
    /\ worker_read' = {}
    /\ UNCHANGED <<ui_fields, ui_pc, fs, nsegs>>

\* lines 419-421: k = -1: open raises; 0 <= k < Len(lines): a write raises
\* after k lines; k = Len(lines): everything is written
WorkerWrite(t, k) ==
    /\ threads[t].pc = "open"
    /\ LET w == threads[t]
       IN  /\ k \in -1..Len(w.lines)
           /\ w.out_path[1] \notin fs_dirs => k = -1
           /\ writes' = IF k = -1 THEN writes
                        ELSE Append(writes, [path |-> w.out_path,
                                             content |-> SubSeq(Content(w.lines), 1, k)])
           /\ IF k = Len(w.lines)
              THEN /\ threads' = [threads EXCEPT ![t].pc = "file_done"]
                   /\ UNCHANGED <<queue, sent, err_idx>>
              ELSE Raise(t)
    /\ worker_read' = {}
    /\ UNCHANGED <<ui_fields, ui_pc, fs, nsegs>>

\* lines 423-431
WorkerFileDone(t) ==
    /\ threads[t].pc = "file_done"
    /\ LET w == threads[t]
       IN  /\ Put(<<"file_done", w.idx, total_files, Name(w.files[w.idx]), w.out_path>>)
           /\ threads' = [threads EXCEPT ![t].pc = "next", ![t].idx = w.idx + 1]
    /\ worker_read' = {"total_files"}
    /\ UNCHANGED <<ui_fields, ui_pc, fs, writes, err_idx, nsegs>>

(***************************************************************************)
(* process_queue and handle_message on the UI thread.                      *)
(***************************************************************************)
Terminal(msg) == msg[1] \in {"all_done", "error"}

\* Mutant of handle_message: file_start counts as a finished file too.
handle_message_counts_starts(msg) ==
    /\ files_done' = IF msg[1] \in {"file_done", "file_start"}
                     THEN files_done + 1 ELSE files_done
    /\ IF Terminal(msg)
       THEN /\ is_transcribing' = FALSE
            /\ select_button' = "normal"
            /\ start_button' = "normal"
            /\ change_output_button' = "normal"
       ELSE UNCHANGED <<is_transcribing, buttons>>
    /\ UNCHANGED <<audio_files, worker_files, total_files, output_dir>>

\* Mutant of handle_message: the error branch enables the controls and
\* leaves is_transcribing set.
handle_message_error_keeps_flag(msg) ==
    /\ files_done' = IF msg[1] = "file_done" THEN files_done + 1 ELSE files_done
    /\ IF Terminal(msg)
       THEN /\ is_transcribing' = (msg[1] = "error" /\ is_transcribing)
            /\ select_button' = "normal"
            /\ start_button' = "normal"
            /\ change_output_button' = "normal"
       ELSE UNCHANGED <<is_transcribing, buttons>>
    /\ UNCHANGED <<audio_files, worker_files, total_files, output_dir>>

\* Mutant of handle_message: the file_done of the last file already returns
\* the UI to idle.
handle_message_idle_at_last_file(msg) ==
    /\ files_done' = IF msg[1] = "file_done" THEN files_done + 1 ELSE files_done
    /\ IF Terminal(msg) \/ (msg[1] = "file_done" /\ files_done' = total_files)
       THEN /\ is_transcribing' = FALSE
            /\ select_button' = "normal"
            /\ start_button' = "normal"
            /\ change_output_button' = "normal"
       ELSE UNCHANGED <<is_transcribing, buttons>>
    /\ UNCHANGED <<audio_files, worker_files, total_files, output_dir>>

\* Mutant of handle_message: the error branch also clears the counters.
handle_message_error_resets_counters(msg) ==
    /\ files_done' = IF msg[1] = "file_done" THEN files_done + 1
                     ELSE IF msg[1] = "error" THEN 0 ELSE files_done
    /\ total_files' = IF msg[1] = "error" THEN 0 ELSE total_files
    /\ IF Terminal(msg)
       THEN /\ is_transcribing' = FALSE
            /\ select_button' = "normal"
            /\ start_button' = "normal"
            /\ change_output_button' = "normal"
       ELSE UNCHANGED <<is_transcribing, buttons>>
    /\ UNCHANGED <<audio_files, worker_files, output_dir>>

\* handle_message: the fields it assigns
handle_message(msg) ==
    /\ files_done' = IF msg[1] = "file_done" THEN files_done + 1 ELSE files_done
    /\ IF Terminal(msg)
       THEN /\ is_transcribing' = FALSE
            /\ select_button' = "normal"
            /\ start_button' = "normal"
            /\ change_output_button' = "normal"
       ELSE UNCHANGED <<is_transcribing, buttons>>
    /\ UNCHANGED <<audio_files, worker_files, total_files, output_dir>>

\* the history variables describe the run in progress: they are dropped when
\* the UI handles the event that ends it
HistoryAfter(msg) ==
    IF Terminal(msg)
    THEN sent' = <<>> /\ writes' = <<>> /\ err_idx' = -1 /\ nsegs' = 0
         /\ worker_read' = {}
    ELSE UNCHANGED history

\* the timer set by root.after(100, self.process_queue) fires
Timer ==
    /\ ui_pc = "mainloop"
    /\ ui_pc' = "process_queue"
    /\ UNCHANGED <<ui_fields, queue, threads, fs, history>>

\* Mutant of ProcessQueueGet: one event is handled per tick.
ProcessQueueGetOne ==
    /\ ui_pc = "process_queue"
    /\ queue # <<>>
    /\ queue' = Tail(queue)
    /\ handle_message(Head(queue))
    /\ HistoryAfter(Head(queue))
    /\ ui_pc' = "mainloop"
    /\ UNCHANGED <<threads, fs>>

\* lines 441-443: get_nowait returns a message, which is handled
ProcessQueueGet ==
    /\ ui_pc = "process_queue"
    /\ queue # <<>>
    /\ queue' = Tail(queue)
    /\ handle_message(Head(queue))
    /\ HistoryAfter(Head(queue))
    /\ UNCHANGED <<ui_pc, threads, fs>>

\* Mutant of ProcessQueueEmpty: the timer is not set again.
ProcessQueueEmptyNoTimer ==
    /\ ui_pc = "process_queue"
    /\ queue = <<>>
    /\ ui_pc' = "no_timer"
    /\ UNCHANGED <<ui_fields, queue, threads, fs, history>>

\* lines 444-448: get_nowait raises queue.Empty; the timer is set again
ProcessQueueEmpty ==
    /\ ui_pc = "process_queue"
    /\ queue = <<>>
    /\ ui_pc' = "mainloop"
    /\ UNCHANGED <<ui_fields, queue, threads, fs, history>>

(***************************************************************************)
(* The environment: files and directories removed behind the program.      *)
(***************************************************************************)
DeleteFile(f) ==
    /\ f \in fs_files
    /\ fs_files' = fs_files \ {f}
    /\ UNCHANGED <<ui_fields, queue, ui_pc, threads, fs_dirs, config, history>>

RemoveDir(d) ==
    /\ d \in fs_dirs
    /\ fs_dirs' = fs_dirs \ {d}
    /\ UNCHANGED <<ui_fields, queue, ui_pc, threads, fs_files, config, history>>

(***************************************************************************)
(* Specifications.                                                         *)
(***************************************************************************)
\* the answers of the directory dialog: cancelled, or a directory other than
\* the default one
DirAnswers == {""} \cup (Dirs \ {DEFAULT_DOWNLOADS_DIR})

UserStep ==
    \/ \E d \in DirAnswers, ok \in BOOLEAN : on_change_output_dir(d, ok, TRUE)
    \/ \E b \in PlainBatches : on_select_files(b)
    \/ on_start_transcription

UIStep ==
    \/ Timer
    \/ ProcessQueueGet
    \/ ProcessQueueEmpty

WorkerStep(t) ==
    \/ WorkerStatus(t)
    \/ \E ok \in BOOLEAN : WorkerLoadModel(t, ok)
    \/ WorkerFor(t)
    \/ WorkerNext(t)
    \/ \E d \in Durations, ok \in BOOLEAN : WorkerTranscribe(t, d, ok)
    \/ \E seg \in Segments : WorkerSegment(t, seg)
    \/ \E ok \in BOOLEAN : WorkerSegmentsEnd(t, ok)
    \/ \E ok \in BOOLEAN : WorkerMkdir(t, ok)
    \/ \E k \in -1..MaxSegs : WorkerWrite(t, k)
    \/ WorkerFileDone(t)

\* The program with its user: files and directories stay as they are, the
\* configuration file can be written, and the file dialog returns paths
\* without symbolic links.
Next ==
    \/ UserStep
    \/ UIStep
    \/ \E t \in 1..Len(threads) : WorkerStep(t)

Spec == Init /\ [][Next]_vars

\* The same with the scheduling the run relies on: the Tk main loop keeps
\* dispatching the timer callback, and a started thread keeps running (every
\* engine call and file operation returns or raises).
FairSpec ==
    /\ Spec
    /\ WF_vars(UIStep)
    /\ WF_vars(\E t \in 1..Len(threads) : WorkerStep(t))

\* Runs into the default output directory, with directories removed behind
\* the program.
NextDisk ==
    \/ \E b \in PlainBatches : on_select_files(b)
    \/ on_start_transcription
    \/ UIStep
    \/ \E t \in 1..Len(threads) : WorkerStep(t)
    \/ \E d \in Dirs : RemoveDir(d)

SpecDisk == Init /\ [][NextDisk]_vars

\* The configuration: the idle application with any answer of the directory
\* dialog, configuration writes that fail, directories removed, and restarts.
NextConfig ==
    \/ \E d \in Dirs \cup {""}, ok \in BOOLEAN, save_ok \in BOOLEAN :
          on_change_output_dir(d, ok, save_ok)
    \/ \E b \in PlainBatches : on_select_files(b)
    \/ \E d \in Dirs : RemoveDir(d)
    \/ Restart

SpecConfig == InitConfig /\ [][NextConfig]_vars

\* Staging alone, with audio files deleted behind the program.
NextSelect ==
    \/ \E b \in Batches : on_select_files(b)
    \/ \E f \in AudioFiles : DeleteFile(f)

SpecSelect == Init /\ [][NextSelect]_vars

\* The first file of a run with every duration and segment end of
\* PercentDurations and PercentEnds.
NextPercent ==
    \/ on_select_files(<<"/real/a.mp3">>)
    \/ on_start_transcription
    \/ UIStep
    \/ \E t \in 1..Len(threads) :
          \/ WorkerStatus(t)
          \/ WorkerLoadModel(t, TRUE)
          \/ WorkerFor(t)
          \/ WorkerNext(t)
          \/ \E d \in PercentDurations : WorkerTranscribe(t, d, TRUE)
          \/ \E seg \in PercentSegments : WorkerSegment(t, seg)

SpecPercent == Init /\ [][NextPercent]_vars

(***************************************************************************)
(* Properties.                                                             *)
(***************************************************************************)
\* the events of one type among those the run in progress has put
SentOf(type) == SelectSeq(sent, LAMBDA m : m[1] = type)
Last(q) == q[Len(q)]
Running == is_transcribing

\* C1: fail-fast run.  When the processing of file k has raised, the worker
\* has put exactly k-1 file_done events, those of files 1..k-1, then one
\* error event, which is its last event and ends the thread; it has put no
\* file_start for an index above k and no all_done.
C1_FailFast ==
    err_idx >= 1 =>
        /\ Len(SentOf("file_done")) = err_idx - 1
        /\ \A i \in 1..(err_idx - 1) : SentOf("file_done")[i][2] = i
        /\ Len(SentOf("error")) = 1
        /\ Last(sent)[1] = "error"
        /\ \A i \in 1..Len(sent) : sent[i][1] = "file_start" => sent[i][2] <= err_idx
        /\ SentOf("all_done") = <<>>
        /\ Active = {}

\* C1 witness: three files, the second raised, one file_done before the error
C1_Witness ==
    /\ Len(worker_files) = 3
    /\ err_idx = 2
    /\ Len(SentOf("file_done")) = 1
    /\ Last(sent)[1] = "error"

\* C2: while a run is in progress, files_done never exceeds total_files.
C2_FilesDoneBounded == Running => files_done <= total_files

\* C2 witness: a run in progress in which every file has been counted
C2_Witness == Running /\ files_done = total_files /\ total_files = 2

\* C3: when all_done is the next event the UI handles, files_done is the
\* length of the snapshot and the worker has written one output file per
\* snapshot entry, in index order; and every file_done put so far was
\* preceded by the write of that index.
C3_AllDoneComplete ==
    /\ (queue # <<>> /\ Head(queue)[1] = "all_done") =>
          /\ files_done = Len(worker_files)
          /\ Len(writes) = Len(worker_files)
          /\ \A i \in 1..Len(writes) : writes[i].path[2] = i
    /\ \A i \in 1..Len(sent) :
          sent[i][1] = "file_done" =>
              \E j \in 1..Len(writes) : writes[j].path = sent[i][5]

\* C3 witness: the UI is about to handle the all_done of a run of three files
C3_Witness ==
    /\ ui_pc = "process_queue"
    /\ queue # <<>> /\ Head(queue)[1] = "all_done"
    /\ Len(worker_files) = 3

\* C4: is_transcribing is idle (FALSE) or running (TRUE); while it is
\* running the select, start and change-output controls are disabled, and no
\* step changes the staged list, the snapshot or the output directory or
\* starts a worker.
C4_RunningDisablesControls ==
    /\ [](/\ is_transcribing \in BOOLEAN
          /\ Running => /\ select_button = "disabled"
                        /\ start_button = "disabled"
                        /\ change_output_button = "disabled")
    /\ [][Running => /\ audio_files' = audio_files
                     /\ worker_files' = worker_files
                     /\ output_dir' = output_dir
                     /\ Len(threads') = Len(threads)]_vars

\* C4 witness: a run in progress, events waiting, the main loop free to
\* dispatch a button press
C4_Witness ==
    /\ Running
    /\ ui_pc = "mainloop"
    /\ queue # <<>>
    /\ select_button = "disabled"
    /\ start_button = "disabled"
    /\ change_output_button = "disabled"

\* C5: at most one worker thread is active.  A worker is started only by a
\* step from idle to running, taken when every earlier worker has returned
\* and the queue is empty; a worker that has returned has put a terminal
\* event, and a terminal event is the last event of its run.
C5_OneWorker ==
    /\ [](/\ Cardinality(Active) <= 1
          /\ \A i \in 1..Len(sent) : Terminal(sent[i]) => i = Len(sent) /\ Active = {}
          /\ (Running /\ Active = {}) => (sent # <<>> /\ Terminal(Last(sent))))
    /\ [][Len(threads') # Len(threads) =>
             /\ Len(threads') = Len(threads) + 1
             /\ ~is_transcribing /\ is_transcribing'
             /\ Active = {}
             /\ queue = <<>>]_vars

\* C5 witness: a second worker runs after the first has returned
C5_Witness ==
    /\ Len(threads) = 2
    /\ Active = {2}
    /\ threads[2].pc = "segments"

\* C6: every run ends: running leads to idle with the select, start and
\* change-output controls enabled again.
C6_RunEnds ==
    Running ~> (/\ ~Running
                /\ select_button = "normal"
                /\ start_button = "normal"
                /\ change_output_button = "normal")

\* C6 witness: the UI is idle again, its controls enabled, after a run of
\* three files whose worker has returned
C6_Witness ==
    /\ ~Running
    /\ Len(threads) = 1
    /\ Active = {}
    /\ Len(worker_files) = 3
    /\ files_done = 3
    /\ select_button = "normal"
    /\ start_button = "normal"
    /\ change_output_button = "normal"

\* C7: a step from idle to running is taken only with a non-empty staged
\* list; it makes the snapshot the staged list, sets files_done to 0 and
\* total_files to the length of the snapshot, empties the staged list and
\* starts one worker.  The start action with an empty staged list changes no
\* field and starts no worker.  While a worker is active the staged list is
\* empty.
C7_StartTransition ==
    /\ [][/\ (~is_transcribing /\ is_transcribing') =>
               /\ audio_files # <<>>
               /\ worker_files' = audio_files
               /\ files_done' = 0
               /\ total_files' = Len(audio_files)
               /\ audio_files' = <<>>
               /\ threads' = Append(threads, Started)
          /\ (on_start_transcription /\ audio_files = <<>>) =>
               UNCHANGED <<ui_fields, threads>>
         ]_vars
    /\ [](Active # {} => audio_files = <<>>)

\* C7 witness: the second run has just been started over two files, after a
\* first run that counted a finished file
C7_Witness ==
    /\ Len(threads) = 2
    /\ threads[2].pc = "status"
    /\ worker_files = <<"/real/b.MP3", "/real/a.mp3">>
    /\ total_files = 2
    /\ files_done = 0
    /\ audio_files = <<>>
    /\ Running

\* C8: the staged list never holds two entries that resolve to the same
\* absolute path.
C8_NoDuplicateStaged ==
    \A i, j \in 1..Len(audio_files) :
        i # j => Resolve(audio_files[i]) # Resolve(audio_files[j])

\* the fields owned by the UI thread
UIOwned == {"audio_files", "total_files", "files_done", "is_transcribing",
            "select_button", "start_button", "change_output_button"}

\* C9: no worker step reads a field owned by the UI thread.
C9_WorkerReadsNoUIField == worker_read \cap UIOwned = {}

\* The percentage as the specification states it: an integer in 0..100; 0
\* when the duration is unknown or not positive; for a positive duration and
\* a known segment end the floor of end / duration * 100 clamped to [0, 100];
\* 42.5 s of 100 s give 42.
PercentAsSpecified(percent, seg_end, info_duration) ==
    /\ percent \in 0..100
    /\ (info_duration = <<>> \/ info_duration[1] <= 0) => percent = 0
    /\ (info_duration # <<>> /\ info_duration[1] > 0 /\ seg_end # <<>>) =>
          LET e == seg_end[1]
              d == info_duration[1]
          IN  /\ e < 0 => percent = 0
              /\ e > d => percent = 100
              /\ (0 <= e /\ e <= d) =>
                    (percent * d <= e * 100 /\ e * 100 < (percent + 1) * d)
    /\ (info_duration = <<200>> /\ seg_end = <<85>>) => percent = 42

Handles(type) ==
    /\ ui_pc = "process_queue"
    /\ queue # <<>>
    /\ Head(queue)[1] = type
    /\ queue' = Tail(queue)

\* C11: handling an error event returns the UI to idle, enables the select,
\* start and change-output controls, and leaves total_files, files_done and
\* the staged list as they were.
C11_ErrorKeepsCounters ==
    [][Handles("error") =>
          /\ ~is_transcribing'
          /\ select_button' = "normal"
          /\ start_button' = "normal"
          /\ change_output_button' = "normal"
          /\ UNCHANGED <<total_files, files_done, audio_files>>]_vars

\* C11 witness: idle after a run of three files that failed in the second
\* one; the counters still read 1 of 3
C11_Witness ==
    /\ ~Running
    /\ Active = {}
    /\ queue = <<>>
    /\ Len(worker_files) = 3
    /\ total_files = 3
    /\ files_done = 1
    /\ select_button = "normal"
    /\ start_button = "normal"
    /\ change_output_button = "normal"

\* C12: a file whose segments are all blank.  A blank segment puts no event
\* and adds no line; when the segments of a file end, the worker goes on to
\* the directory and the write; with no line buffered no segment event
\* follows the file_start, the file is written with no content, and the next
\* step of the worker puts its file_done and moves to the next file.  A
\* file_start of file i+1 is put only after the write and the file_done of
\* file i.
C12_EmptyResult ==
    /\ [](\A t \in 1..Len(threads) :
             LET w == threads[t]
             IN  /\ (w.pc \in {"mkdir", "open", "file_done"} /\ w.lines = <<>>) =>
                       (Last(sent)[1] = "file_start" /\ Last(sent)[2] = w.idx)
                 /\ (w.pc = "file_done" /\ w.lines = <<>>) =>
                       (writes # <<>> /\
                        Last(writes) = [path |-> w.out_path, content |-> <<>>]))
    /\ [](\A j \in 1..Len(sent) :
             (sent[j][1] = "file_start" /\ sent[j][2] > 1) =>
                 /\ \E i \in 1..(j - 1) :
                       sent[i][1] = "file_done" /\ sent[i][2] = sent[j][2] - 1
                 /\ \E i \in 1..Len(writes) : writes[i].path[2] = sent[j][2] - 1)
    /\ [][\A t \in 1..Len(threads) :
             /\ \A seg \in Segments :
                   (WorkerSegment(t, seg) /\ Strip(seg.text) = "") =>
                       (sent' = sent /\ threads'[t].lines = threads[t].lines)
             /\ (threads[t].pc = "segments" /\ threads'[t].pc \notin {"segments", "done"})
                   => threads'[t].pc = "mkdir"
             /\ (threads[t].pc = "file_done" /\ threads'[t] # threads[t]) =>
                   /\ Last(sent')[1] = "file_done"
                   /\ Last(sent')[2] = threads[t].idx
                   /\ threads'[t].pc = "next"
                   /\ threads'[t].idx = threads[t].idx + 1]_vars

\* C12 witness: the first file yielded only blank segments; its empty output
\* was written, its file_done put, and the second file has been started
C12_Witness ==
    /\ nsegs >= 1
    /\ SentOf("segment") = <<>>
    /\ Len(writes) = 1
    /\ writes[1].content = <<>>
    /\ Len(SentOf("file_done")) = 1
    /\ Last(sent)[1] = "file_start"
    /\ Last(sent)[2] = 2

\* C13: a thread comes to the write of a transcript only from the mkdir of
\* the output directory, which leaves the directory of out_path existing,
\* whether or not it existed before; a transcript is written only by a
\* thread that has come so, and only into an existing directory.
C13_MkdirBeforeWrite ==
    [][/\ \A t \in 1..Len(threads) :
             (threads'[t].pc = "open" /\ threads[t].pc # "open") =>
                 /\ threads[t].pc = "mkdir"
                 /\ threads'[t].out_path[1] = output_dir
                 /\ output_dir \in fs_dirs'
       /\ (writes' # writes /\ writes' # <<>>) =>
             /\ \E t \in 1..Len(threads) :
                   threads[t].pc = "open" /\ Last(writes').path = threads[t].out_path
             /\ Last(writes').path[1] \in fs_dirs]_vars

\* C13 witness: the output directory was removed after the first file was
\* written; the mkdir of the second file has created it again
C13_Witness ==
    /\ Len(threads) = 1
    /\ threads[1].pc = "open"
    /\ threads[1].idx = 2
    /\ threads[1].created
    /\ Len(writes) = 1
    /\ output_dir \in fs_dirs

\* C14: a start of the application takes the output directory from the
\* configuration file when the file is a JSON object whose output_dir is an
\* existing directory (as it is after a successful save_output_dir(d) while
\* d exists); in every other case (no file, unreadable file, no output_dir,
\* a path that is no existing directory) it takes the default downloads
\* directory, which exists afterwards.
C14_ConfigRoundTrip ==
    [][Restart =>
          IF config[1] = "object" /\ Len(config) = 2 /\ config[2] \in fs_dirs
          THEN output_dir' = config[2]
          ELSE output_dir' = DEFAULT_DOWNLOADS_DIR /\ DEFAULT_DOWNLOADS_DIR \in fs_dirs']_vars

\* C15: when the UI handles all_done, the files of the run that ended are
\* still staged: every file of the run's snapshot is in audio_files, so the
\* enabled start control would run them again.
C15_FilesRemainStaged ==
    [][Handles("all_done") =>
          \A i \in 1..Len(worker_files) :
              \E j \in 1..Len(audio_files') : audio_files'[j] = worker_files[i]]_vars

\* the events of the run that the UI has handled, in the order of handling
Handled == SubSeq(sent, 1, Len(sent) - Len(queue))
\* the number of file_start events among the first p events of the run
StartsUpTo(p) == Cardinality({q \in 1..p : sent[q][1] = "file_start"})
\* the texts of the segment events put since the last file_start
SegmentsOfCurrentFile ==
    LET from == CHOOSE p \in 1..Len(sent) :
                    /\ sent[p][1] = "file_start"
                    /\ \A q \in (p+1)..Len(sent) : sent[q][1] # "file_start"
        segs == SelectSeq(SubSeq(sent, from + 1, Len(sent)),
                          LAMBDA m : m[1] = "segment")
    IN  [i \in 1..Len(segs) |-> segs[i][2]]
\* the place of each event in the run: two status events, then per file in
\* ascending order file_start, its segments, file_done, then all_done; an
\* error event may end the run after any event
EventOrder ==
    \A p \in 1..Len(sent) :
        LET m    == sent[p]
            prev == IF p > 1 THEN sent[p-1][1] ELSE "none"
        IN  CASE m[1] = "status"     -> p <= 2 /\ (p = 2 => prev = "status")
              [] m[1] = "file_start" -> /\ m[2] = StartsUpTo(p)
                                        /\ IF m[2] = 1
                                           THEN p = 3 /\ prev = "status"
                                           ELSE prev = "file_done" /\ sent[p-1][2] = m[2] - 1
              [] m[1] = "segment"    -> prev \in {"file_start", "segment"}
              [] m[1] = "file_done"  -> /\ prev \in {"file_start", "segment"}
                                        /\ m[2] = StartsUpTo(p)
              [] m[1] = "all_done"   -> /\ p = Len(sent)
                                        /\ prev = "file_done"
                                        /\ sent[p-1][2] = Len(worker_files)
              [] m[1] = "error"      -> p = Len(sent) /\ p > 1

\* C16: the events wait in the queue in the order the worker put them, none
\* lost, doubled or reordered: the queue is the end of the run's events and
\* the UI has handled the beginning; the events of a run are the two status
\* events, then for i = 1..n ascending file_start(i), the segment events of
\* file i in the order the engine yielded them, file_done(i), then all_done;
\* the UI has counted exactly the file_done events it has handled.
C16_EventOrder ==
    /\ Len(queue) <= Len(sent)
    /\ queue = SubSeq(sent, Len(sent) - Len(queue) + 1, Len(sent))
    /\ EventOrder
    /\ \A t \in Active :
          threads[t].pc \in {"segments", "mkdir", "open", "file_done"}
              => SegmentsOfCurrentFile = threads[t].lines
    /\ Running =>
          files_done = Len(SelectSeq(Handled, LAMBDA m : m[1] = "file_done"))

\* the UI has handled file_start(2) and one segment of file 2 while the next
\* segment waits in the queue
C16_Witness ==
    /\ Running
    /\ queue # <<>>
    /\ Head(queue)[1] = "segment"
    /\ Len(Handled) >= 2
    /\ Last(Handled)[1] = "segment"
    /\ Handled[Len(Handled) - 1] [1] = "file_start"
    /\ Handled[Len(Handled) - 1] [2] = 2

\* a run is started: a worker thread is created
Starts == Len(threads') > Len(threads)

\* C17: files_done changes in two ways only: the start of a run sets it to
\* 0, and the handling of a file_done event adds exactly 1; every other
\* step (handling any other event, selecting files, changing the output
\* folder, the worker's steps) leaves it as it is.
C17_FilesDoneFrame ==
    [][/\ Starts => files_done' = 0
       /\ Handles("file_done") => files_done' = files_done + 1
       /\ ~Starts /\ ~Handles("file_done") => files_done' = files_done]_vars

\* a second run, started after a run that counted files, has counted one
C17_Witness ==
    /\ Len(threads) = 2
    /\ Running
    /\ files_done = 1
    /\ Len(worker_files) = 2

\* C18: a tick of process_queue takes the events from the head of the queue
\* one after the other and handles each; it ends only when it finds the
\* queue empty, and then changes nothing but sets the timer again; it can
\* always take its next step, whatever the worker does; events leave the
\* queue in no other way.
C18_Drain ==
    [][/\ ui_pc = "process_queue" /\ ui_pc' # ui_pc
            => queue = <<>> /\ ui_pc' = "mainloop" /\ UNCHANGED <<ui_fields, queue>>
       /\ ui_pc = "process_queue" /\ queue # <<>> /\ ui_fields' # ui_fields
            => queue' = Tail(queue)
       /\ Len(queue') < Len(queue)
            => ui_pc = "process_queue" /\ ui_pc' = ui_pc /\ queue' = Tail(queue)
       /\ ui_pc = "process_queue" => ENABLED (ProcessQueueGet \/ ProcessQueueEmpty)
       /\ ui_pc = "mainloop" => ENABLED Timer
       /\ ui_pc \in {"mainloop", "process_queue"}]_vars

\* a tick has found several events waiting
C18_Witness ==
    /\ ui_pc = "process_queue"
    /\ Len(queue) >= 3
    /\ Handled # <<>>

\* the places of the terminal events among the events of the run
TerminalsSent == {i \in 1..Len(sent) : Terminal(sent[i])}

\* C19: a run puts one terminal event, all_done or error and never both,
\* once its worker has returned, and puts nothing after it; the UI handles
\* it last, after which the queue is empty; so whenever the UI is idle the
\* queue is empty and no worker is active, and a run starts on an empty
\* queue: what it handles are its own events.
C19_OneTerminal ==
    /\ [](/\ Cardinality(TerminalsSent) <= 1
          /\ TerminalsSent \subseteq {Len(sent)}
          /\ Running => (Active = {} <=> Cardinality(TerminalsSent) = 1)
          /\ \A i \in 1..Len(Handled) : ~Terminal(Handled[i])
          /\ ~Running => queue = <<>> /\ Active = {} /\ sent = <<>>)
    /\ [][/\ (Handles("all_done") \/ Handles("error")) => queue' = <<>> /\ ~Running'
          /\ Running /\ ~Running' => Handles("all_done") \/ Handles("error")]_vars

\* the worker has returned on an error and its terminal event waits in the
\* queue behind events of the run the UI has yet to handle
C19_Witness ==
    /\ Running
    /\ Active = {}
    /\ Len(queue) >= 3
    /\ Last(queue)[1] = "error"
    /\ Len(SentOf("file_done")) = 1

\* C20: while a run is in progress total_files is the length of the run's
\* snapshot, the worker iterates over that snapshot, and no step of the UI
\* or of the worker changes the snapshot, total_files or the output
\* directory; so every file_start and file_done event of the run carries
\* the length of the snapshot as its total.
C20_SharedFieldsStable ==
    /\ [](Running =>
            /\ total_files = Len(worker_files)
            /\ \A t \in Active :
                  threads[t].pc \notin {"status", "load", "for"}
                      => threads[t].files = worker_files
            /\ \A i \in 1..Len(sent) :
                  sent[i][1] \in {"file_start", "file_done"}
                      => sent[i][3] = Len(worker_files))
    /\ [][Running /\ Running'
             => UNCHANGED <<worker_files, total_files, output_dir>>]_vars

\* the worker of a run into a directory chosen before the run has put the
\* events of its first file and started the second
C20_Witness ==
    /\ Running
    /\ output_dir = "out"
    /\ Len(worker_files) = 2
    /\ Len(SentOf("file_done")) = 1
    /\ Len(SentOf("file_start")) = 2
    /\ \E t \in Active : threads[t].pc = "mkdir" /\ threads[t].idx = 2
====
